---- MODULE Spec2Model ----
(***************************************************************************)
(* Model of bin/add_revision.py: the tool that registers a revision or an  *)
(* erratum of one paper.  A run of main() is a straight line of steps      *)
(* (resolve the input, validate it, create the output directory, locate    *)
(* the paper in the XML, compute revno, bootstrap v1, add the node and     *)
(* write the XML, copy the files, clean up); the model runs the tool       *)
(* several times in a row on one paper.                                    *)
(***************************************************************************)
EXTENDS Integers, Sequences, FiniteSets, TLC

VARIABLES pc, runs, args, remote, input_file_path, checksum, revno, tree,
          fatal, exitcode, removed, fetched, dirExists, disk, xml, old,
          lastRev

vars == <<pc, runs, args, remote, input_file_path, checksum, revno, tree,
          fatal, exitcode, removed, fetched, dirExists, disk, xml, old,
          lastRev>>

(* ------------------------------ bounds --------------------------------- *)

\* number of runs of the tool in one behaviour
MaxRuns == 3
\* file contents are 0..MaxContent; 0 is the empty file
MaxContent == 3

Contents == 0..MaxContent
EmptyContent == 0
\* the content of the paper as first published
OrigContent == 2

None == "None"
NoFile == -1

(* ------------------------------ naming --------------------------------- *)

AnthologyId == "P18-1001"
OutputDir == "anthology-files/pdf/P/P18"
Explanation == "Fixed typos"
Date == "2019-06-01"

\* args.path, cut after its first four characters
UrlSource == <<"http", "s://example.org/new.pdf">>
LocalSource == <<"/hom", "e/me/new.pdf">>
Sources == {UrlSource, LocalSource}

Digits == <<"0", "1", "2", "3", "4", "5", "6", "7", "8", "9">>

\* str(n) for a natural number: its decimal digits
RECURSIVE Str(_)
Str(n) ==
    IF n < 10 THEN <<Digits[n + 1]>>
    ELSE Str(n \div 10) \o <<Digits[(n % 10) + 1]>>

DigitVal(ch) == CHOOSE d \in 0..9 : Digits[d + 1] = ch

\* int(s) for a string of decimal digits
RECURSIVE ParseInt(_)
ParseInt(s) ==
    IF Len(s) = 0 THEN 0
    ELSE ParseInt(SubSeq(s, 1, Len(s) - 1)) * 10 + DigitVal(s[Len(s)])

\* the file mkstemp creates in run r
TempPath(r) == <<"/tmp/tmp">> \o Str(r)

change_type(a) == IF a.erratum THEN "erratum" ELSE "revision"
change_letter(a) == IF a.erratum THEN "e" ELSE "v"

\* f"{args.anthology_id}{change_letter}{revno}"
Href(letter, n) == <<AnthologyId, letter>> \o Str(n)

\* os.path.join(output_dir, f"{args.anthology_id}{change_letter}{revno}.pdf")
VersionedPath(letter, n) == <<OutputDir>> \o Href(letter, n) \o <<".pdf">>

canonical_path == <<OutputDir, AnthologyId, ".pdf">>

InArchive(p) == p[1] = OutputDir

(* ------------------------------ files ---------------------------------- *)

NoFiles == [p \in {} |-> 0]

ReadFile(d, p) == IF p \in DOMAIN d THEN d[p] ELSE NoFile

WriteFile(d, p, c) == (p :> c) @@ d

RemoveFile(d, p) == [q \in (DOMAIN d) \ {p} |-> d[q]]

\* the files under the output directory
Archive(d) == [q \in {p \in DOMAIN d : InArchive(p)} |-> d[q]]

\* compute_hash: a checksum of the bytes
HashMod == 97
compute_hash(c) == (c * 31 + 7) % HashMod

\* filetype.guess: the detected type of the bytes, or None
NoGuess == [mime |-> <<>>, extension |-> <<>>]

Guess(c) ==
    IF c = EmptyContent THEN NoGuess
    ELSE IF c = 1
      THEN [mime |-> <<"i","m","a","g","e","/","j","p","e","g">>,
            extension |-> <<"j","p","g">>]
    ELSE IF c % 2 = 0
      THEN [mime |-> <<"a","p","p","l","i","c","a","t","i","o","n","/","p","d","f">>,
            extension |-> <<"p","d","f">>]
    ELSE [mime |-> <<"i","m","a","g","e","/","p","n","g">>,
          extension |-> <<"p","n","g">>]

\* str.endswith
EndsWith(s, suffix) ==
    /\ Len(suffix) <= Len(s)
    /\ SubSeq(s, Len(s) - Len(suffix) + 1, Len(s)) = suffix

\* validate_file_type returns normally (TRUE) or exits (FALSE)
validate_file_type(c) ==
    LET detected == Guess(c) IN
    ~ (detected = NoGuess \/ ~ EndsWith(detected.mime, detected.extension))

\* args.path.startswith("http")
StartsWithHttp(path) == path[1] = "http"

\* the --dry-run option: action="store_true", default=False
DryRunDefault == FALSE

\* parser.parse_args()
ParseArgs(flags, path) ==
    [flags |-> flags,
     dry_run |-> IF "--dry-run" \in flags THEN TRUE ELSE DryRunDefault,
     erratum |-> "--erratum" \in flags,
     path |-> path,
     explanation |-> Explanation,
     date |-> Date]

\* maybe_copy: the disk after the call
maybe_copy(d, dry_run, file_from, file_to) ==
    IF ~ dry_run THEN WriteFile(d, file_to, ReadFile(d, file_from))
    ELSE d

(* ------------------------------ XML ------------------------------------ *)

\* make_simple_element(tag, text, attrib): a child node of the paper
MakeNode(tag, text, id, href, hash, date) ==
    [tag |-> tag, text |-> text, id |-> id, href |-> href, hash |-> hash,
     date |-> date]

\* findall that forgets the tag
FindAll_anyTag(children, tag) == children

\* paper.findall(tag): the children with that tag, in document order
FindAll(children, tag) == SelectSeq(children, LAMBDA n : n.tag = tag)

\* the loop over the existing nodes: each one overwrites revno
RECURSIVE ScanRevno(_, _)
ScanRevno(revisions, r) ==
    IF revisions = <<>> THEN r
    ELSE ScanRevno(Tail(revisions), ParseInt(Head(revisions).id) + 1)

\* the numbering of errata used for revisions as well
NextRevno_fromOne(children, a) ==
    ScanRevno(FindAll(children, change_type(a)), 1)

NextRevno(children, a) ==
    ScanRevno(FindAll(children, change_type(a)), IF a.erratum THEN 1 ELSE 2)

\* the bootstrap on every revision
NeedsBootstrap_everyRevision(a, r) == ~ a.erratum /\ r >= 2

\* "if not args.erratum and revno == 2"
NeedsBootstrap(a, r) == ~ a.erratum /\ r = 2

\* download_file(source, dest): the disk after the call; content is what the
\* server sends, outcome tells whether and where an SSL error strikes
DownloadOutcomes == {"ok", "ssl_connect", "ssl_read"}

download_file(d, content, dest, outcome) ==
    IF outcome = "ok" THEN WriteFile(d, dest, content)
    ELSE IF outcome = "ssl_read" THEN WriteFile(d, dest, EmptyContent)
    ELSE d

(* ------------------------------ state ---------------------------------- *)

NoTree == [found |-> FALSE, hasUrl |-> FALSE, urlHash |-> 0, children |-> <<>>]

\* the paper as the ingestion left it: no revision and no erratum nodes
FreshPaper(hasUrl) ==
    [found |-> TRUE, hasUrl |-> hasUrl,
     urlHash |-> IF hasUrl THEN compute_hash(OrigContent) ELSE 0,
     children |-> <<>>]

InitXml == {NoTree} \cup {FreshPaper(u) : u \in BOOLEAN}

Init ==
    /\ pc = "idle"
    /\ runs = 0
    /\ args = ParseArgs({}, LocalSource)
    /\ remote = NoFile
    /\ input_file_path = <<>>
    /\ checksum = NoFile
    /\ revno = 0
    /\ tree = NoTree
    /\ fatal = "none"
    /\ exitcode = -1
    /\ removed = <<>>
    /\ fetched = <<>>
    /\ dirExists \in BOOLEAN
    /\ disk = IF dirExists THEN WriteFile(NoFiles, canonical_path, OrigContent)
              ELSE NoFiles
    /\ xml \in InitXml
    /\ old = [xml |-> xml, disk |-> disk, dir |-> dirExists]
    /\ lastRev = NoFile

Exit(reason) ==
    /\ pc' = "fatal"
    /\ fatal' = reason
    /\ exitcode' = 1

(* ------------------------------ main ----------------------------------- *)

\* the command line is parsed and main(args) entered (lines 229-263, 102-105)
Start ==
    /\ pc \in {"idle", "done", "fatal"}
    /\ runs < MaxRuns
    /\ \E flags \in SUBSET {"--dry-run", "--erratum"}, path \in Sources,
          c \in Contents :
         /\ args' = ParseArgs(flags, path)
         /\ remote' = IF StartsWithHttp(path) THEN c ELSE NoFile
         /\ disk' = IF StartsWithHttp(path) THEN disk
                    ELSE WriteFile(disk, path, c)
    /\ runs' = runs + 1
    /\ pc' = "resolve"
    /\ input_file_path' = <<>>
    /\ checksum' = NoFile
    /\ revno' = 0
    /\ tree' = NoTree
    /\ fatal' = "none"
    /\ exitcode' = -1
    /\ removed' = <<>>
    /\ fetched' = <<>>
    /\ old' = [xml |-> xml, disk |-> disk', dir |-> dirExists]
    /\ UNCHANGED <<dirExists, xml, lastRev>>

\* lines 107-112: a URL is downloaded to a fresh temporary file
Resolve ==
    /\ pc = "resolve"
    /\ IF StartsWithHttp(args.path)
         THEN /\ input_file_path' = TempPath(runs)
              /\ fetched' = Append(fetched, "input")
              /\ \E outcome \in DownloadOutcomes :
                   /\ disk' = download_file(
                                 WriteFile(disk, TempPath(runs), EmptyContent),
                                 remote, TempPath(runs), outcome)
                   /\ IF outcome = "ok"
                        THEN pc' = "validate" /\ UNCHANGED <<fatal, exitcode>>
                        ELSE Exit("ssl")
         ELSE /\ input_file_path' = args.path
              /\ pc' = "validate"
              /\ UNCHANGED <<disk, fetched, fatal, exitcode>>
    /\ UNCHANGED <<runs, args, remote, checksum, revno, tree, removed,
                   dirExists, xml, old, lastRev>>

\* line 114
ValidateInput ==
    /\ pc = "validate"
    /\ IF validate_file_type(ReadFile(disk, input_file_path))
         THEN pc' = "mkdir" /\ UNCHANGED <<fatal, exitcode>>
         ELSE Exit("mime")
    /\ UNCHANGED <<runs, args, remote, input_file_path, checksum, revno, tree,
                   removed, fetched, dirExists, disk, xml, old, lastRev>>

\* lines 116-140: the checksum, and the output directory is created
MakeDir ==
    /\ pc = "mkdir"
    /\ checksum' = compute_hash(ReadFile(disk, input_file_path))
    /\ dirExists' = IF ~ dirExists THEN TRUE ELSE dirExists
    /\ pc' = "locate"
    /\ UNCHANGED <<runs, args, remote, input_file_path, revno, tree, fatal,
                   exitcode, removed, fetched, disk, xml, old, lastRev>>

\* "if not args.dry_run: ... url.attrib["hash"] = checksum" (lines 154-158)
UpdateUrlHash(t, a, sum) ==
    IF ~ a.dry_run /\ t.hasUrl THEN [t EXCEPT !.urlHash = sum] ELSE t

\* lines 146-158 and 207-212: the paper is looked up, revno computed
Locate ==
    /\ pc = "locate"
    /\ IF ~ xml.found
         THEN /\ Exit("notfound")
              /\ tree' = xml
              /\ UNCHANGED revno
         ELSE /\ revno' = NextRevno(xml.children, args)
              /\ tree' = UpdateUrlHash(xml, args, checksum)
              /\ pc' = IF args.dry_run THEN "copy_versioned"
                       ELSE IF NeedsBootstrap(args, revno')
                         THEN "bootstrap_download"
                       ELSE "add_node"
              /\ UNCHANGED <<fatal, exitcode>>
    /\ UNCHANGED <<runs, args, remote, input_file_path, checksum, removed,
                   fetched, dirExists, disk, xml, old, lastRev>>

\* lines 160-171: the original file is downloaded to the v1 path
BootstrapDownload ==
    /\ pc = "bootstrap_download"
    /\ IF ~ tree.hasUrl
         THEN \* current_version_url is unbound: UnboundLocalError
              /\ Exit("unbound")
              /\ UNCHANGED <<disk, fetched>>
         ELSE /\ fetched' = Append(fetched, "original")
              /\ \E c \in Contents, outcome \in DownloadOutcomes :
                   /\ disk' = download_file(disk, c,
                                 VersionedPath(change_letter(args), 1), outcome)
                   /\ IF outcome = "ok"
                        THEN /\ pc' = "bootstrap_validate"
                             /\ UNCHANGED <<fatal, exitcode>>
                        ELSE Exit("ssl")
    /\ UNCHANGED <<runs, args, remote, input_file_path, checksum, revno, tree,
                   removed, dirExists, xml, old, lastRev>>

\* lines 172-187: the v1 file is validated and its node added to the tree
BootstrapValidate ==
    /\ pc = "bootstrap_validate"
    /\ LET revised_file_v1_path == VersionedPath(change_letter(args), 1)
           old_checksum == compute_hash(ReadFile(disk, revised_file_v1_path))
       IN IF validate_file_type(ReadFile(disk, revised_file_v1_path))
            THEN /\ tree' = [tree EXCEPT !.children = Append(@,
                       MakeNode(change_type(args), None, <<"1">>,
                                Href(change_letter(args), 1), old_checksum,
                                None))]
                 /\ pc' = "add_node"
                 /\ UNCHANGED <<fatal, exitcode>>
            ELSE /\ Exit("mime")
                 /\ UNCHANGED tree
    /\ UNCHANGED <<runs, args, remote, input_file_path, checksum, revno,
                   removed, fetched, dirExists, disk, xml, old, lastRev>>

\* the new node with the hash of the empty file instead of the checksum
NewNode_staleHash(a, r, sum) ==
    MakeNode(change_type(a), a.explanation, Str(r), Href(change_letter(a), r),
             compute_hash(EmptyContent), a.date)

\* the node of the new revision or erratum (lines 189-199)
NewNode(a, r, sum) ==
    MakeNode(change_type(a), a.explanation, Str(r), Href(change_letter(a), r),
             sum, a.date)

\* lines 189-205: the new node is added and the XML file written
AddNode ==
    /\ pc = "add_node"
    /\ tree' = [tree EXCEPT !.children = Append(@, NewNode(args, revno, checksum))]
    /\ xml' = tree'
    /\ pc' = "copy_versioned"
    /\ UNCHANGED <<runs, args, remote, input_file_path, checksum, revno, fatal,
                   exitcode, removed, fetched, dirExists, disk, old, lastRev>>

\* lines 214-219
CopyVersioned ==
    /\ pc = "copy_versioned"
    /\ disk' = maybe_copy(disk, args.dry_run, input_file_path,
                          VersionedPath(change_letter(args), revno))
    /\ pc' = "copy_canonical"
    /\ UNCHANGED <<runs, args, remote, input_file_path, checksum, revno, tree,
                   fatal, exitcode, removed, fetched, dirExists, xml, old,
                   lastRev>>

\* the canonical copy made for errata too
CopiesCanonical_always(a) == TRUE

\* "if not args.erratum: maybe_copy(input_file_path, canonical_path)"
CopiesCanonical(a) == ~ a.erratum

\* lines 221-223
CopyCanonical ==
    /\ pc = "copy_canonical"
    /\ disk' = IF CopiesCanonical(args)
                 THEN maybe_copy(disk, args.dry_run, input_file_path,
                                 canonical_path)
                 ELSE disk
    /\ pc' = "cleanup"
    /\ UNCHANGED <<runs, args, remote, input_file_path, checksum, revno, tree,
                   fatal, exitcode, removed, fetched, dirExists, xml, old,
                   lastRev>>

\* the clean-up skipped in a dry run
RemovesInput_commitOnly(a) == StartsWithHttp(a.path) /\ ~ a.dry_run

\* "if args.path.startswith("http"): os.remove(input_file_path)"
RemovesInput(a) == StartsWithHttp(a.path)

\* lines 225-226, and main returns
Cleanup ==
    /\ pc = "cleanup"
    /\ IF RemovesInput(args)
         THEN /\ disk' = RemoveFile(disk, input_file_path)
              /\ removed' = Append(removed, input_file_path)
         ELSE UNCHANGED <<disk, removed>>
    /\ lastRev' = IF ~ args.dry_run /\ ~ args.erratum
                    THEN ReadFile(disk, input_file_path)
                    ELSE lastRev
    /\ pc' = "done"
    /\ exitcode' = 0
    /\ UNCHANGED <<runs, args, remote, input_file_path, checksum, revno, tree,
                   fatal, fetched, dirExists, xml, old>>

Next ==
    \/ Start
    \/ Resolve
    \/ ValidateInput
    \/ MakeDir
    \/ Locate
    \/ BootstrapDownload
    \/ BootstrapValidate
    \/ AddNode
    \/ CopyVersioned
    \/ CopyCanonical
    \/ Cleanup

Spec == Init /\ [][Next]_vars

(* ------------------------------ properties ----------------------------- *)

Revisions(x) == SelectSeq(x.children, LAMBDA n : n.tag = "revision")
Errata(x) == SelectSeq(x.children, LAMBDA n : n.tag = "erratum")

IdsOf(nodes) == [i \in 1..Len(nodes) |-> ParseInt(nodes[i].id)]

Ascending(n) == [i \in 1..n |-> i]

IsPrefix(s, t) == Len(s) <= Len(t) /\ SubSeq(t, 1, Len(s)) = s

\* the bytes of the file the run was given
InputBytes ==
    IF StartsWithHttp(args.path) THEN remote ELSE ReadFile(disk, args.path)

\* the run has computed revno and not exited
PastLocate ==
    pc \in {"bootstrap_download", "bootstrap_validate", "add_node",
            "copy_versioned", "copy_canonical", "cleanup", "done"}

\* C1: a dry run, whatever the kind and the state of the paper, creates no
\* directory, changes no file of the archive and leaves the XML file as it was.
C1_DryRunChangesNothing ==
    (pc # "idle" /\ args.dry_run) =>
        /\ dirExists = old.dir
        /\ Archive(disk) = Archive(old.disk)
        /\ xml = old.xml

\* C2: a run started without a mode flag is a dry run: when it is done it has
\* written neither the XML file nor any file of the archive.
C2_DefaultIsDryRun ==
    (pc = "done" /\ "--dry-run" \notin args.flags) =>
        /\ xml = old.xml
        /\ Archive(disk) = Archive(old.disk)

\* the highest n for which a versioned revision file v<n> is on disk
HighestRevisionFile ==
    LET ns == {n \in 1..(runs + 1) : VersionedPath("v", n) \in DOMAIN disk}
    IN CHOOSE n \in ns : \A m \in ns : m <= n

\* C3: once a revision has been committed, between runs the canonical file
\* holds the input of the most recent committed revision, which is also the
\* content of the highest-numbered revision file.
C3_CanonicalIsLatestRevision ==
    (pc \in {"done", "fatal"} /\ lastRev # NoFile) =>
        /\ ReadFile(disk, canonical_path) = lastRev
        /\ ReadFile(disk, VersionedPath("v", HighestRevisionFile)) = lastRev
        /\ HighestRevisionFile = Len(Revisions(xml))

C3_Witness ==
    /\ pc = "done"
    /\ args.erratum /\ ~ args.dry_run
    /\ lastRev \notin {NoFile, OrigContent}
    /\ InputBytes # lastRev
    /\ Len(Revisions(xml)) = 2
    /\ ReadFile(disk, canonical_path) = lastRev

\* C4: starting from a paper without revision and erratum nodes, the ids of
\* its revision nodes are 1..n in document order and the ids of its erratum
\* nodes are 1..m in document order.
C4_IdsContiguous ==
    /\ IdsOf(Revisions(xml)) = Ascending(Len(Revisions(xml)))
    /\ IdsOf(Errata(xml)) = Ascending(Len(Errata(xml)))

C4_Witness ==
    /\ pc = "done"
    /\ Len(Revisions(xml)) = 3
    /\ Len(Errata(xml)) = 1

\* C5: a revision run on a paper without revision nodes computes revno 2 and,
\* when it commits, adds the bootstrap node (id "1", the hash of the fetched
\* original, no text) and then the node with id "2"; a revision run on the
\* resulting record computes revno 3 and adds the node with id "3" only.
C5_FirstRevisionBootstraps ==
    /\ (~ args.erratum /\ PastLocate /\ Revisions(old.xml) = <<>>) => revno = 2
    /\ (~ args.erratum /\ ~ args.dry_run /\ pc = "done"
           /\ Revisions(old.xml) = <<>>) =>
          /\ Len(xml.children) = Len(old.xml.children) + 2
          /\ IsPrefix(old.xml.children, xml.children)
          /\ LET boot == xml.children[Len(xml.children) - 1]
                 new == xml.children[Len(xml.children)]
             IN /\ boot.tag = "revision" /\ boot.id = <<"1">>
                /\ boot.text = None
                /\ boot.hash =
                     compute_hash(ReadFile(disk, VersionedPath("v", 1)))
                /\ new.tag = "revision" /\ new.id = <<"2">>
    /\ (~ args.erratum /\ PastLocate /\ IdsOf(Revisions(old.xml)) = <<1, 2>>)
          => revno = 3
    /\ (~ args.erratum /\ ~ args.dry_run /\ pc = "done"
           /\ IdsOf(Revisions(old.xml)) = <<1, 2>>) =>
          /\ xml.children =
               Append(old.xml.children, xml.children[Len(xml.children)])
          /\ xml.children[Len(xml.children)].id = <<"3">>
          /\ "original" \notin {fetched[i] : i \in 1..Len(fetched)}

C5_Witness ==
    /\ pc = "done"
    /\ ~ args.erratum /\ ~ args.dry_run
    /\ revno = 3
    /\ IdsOf(Revisions(xml)) = <<1, 2, 3>>

\* C6: an erratum run on a paper without erratum nodes computes revno 1 and
\* bootstraps nothing (no revision node added, no original fetched, the v1
\* file untouched), whatever revision nodes there are; the number of an
\* erratum depends on the erratum nodes only and the number of a revision on
\* the revision nodes only.
C6_ErratumCounterSeparate ==
    /\ (args.erratum /\ PastLocate /\ Errata(old.xml) = <<>>) => revno = 1
    /\ (args.erratum /\ PastLocate) =>
          /\ revno = Len(Errata(old.xml)) + 1
          /\ pc \notin {"bootstrap_download", "bootstrap_validate"}
          /\ Revisions(tree) = Revisions(old.xml)
          /\ "original" \notin {fetched[i] : i \in 1..Len(fetched)}
          /\ ReadFile(disk, VersionedPath("v", 1))
               = ReadFile(old.disk, VersionedPath("v", 1))
    /\ (~ args.erratum /\ PastLocate) =>
          revno = IF Revisions(old.xml) = <<>> THEN 2
                  ELSE Len(Revisions(old.xml)) + 1

C6_Witness ==
    /\ pc = "done"
    /\ args.erratum /\ ~ args.dry_run
    /\ revno = 1
    /\ Len(Revisions(xml)) = 2
    /\ Len(Errata(xml)) = 1

\* the new node of a committed run is the last child and is as the run's
\* arguments say
LastChildIsNew ==
    LET new == xml.children[Len(xml.children)]
    IN /\ new.tag = change_type(args)
       /\ new.id = Str(revno)
       /\ new.href = Href(change_letter(args), revno)
       /\ new.hash = compute_hash(InputBytes)

RevisionFilesWritten ==
    /\ ReadFile(disk, canonical_path) = InputBytes
    /\ ReadFile(disk, VersionedPath("v", revno)) = InputBytes

\* C7 as stated: after a committed revision run the canonical file and the
\* file v<revno> hold the input and the paper has exactly one more child, the
\* node of the new revision.
C7_ExactlyOneNewChild ==
    (pc = "done" /\ ~ args.dry_run /\ ~ args.erratum) =>
        /\ RevisionFilesWritten
        /\ Len(xml.children) = Len(old.xml.children) + 1
        /\ LastChildIsNew

\* C7 amended: after a committed revision run the canonical file and the file
\* v<revno> hold the input and the paper has gained the node of the new
\* revision as its last child, one new child on a later revision and two on
\* the first, where the bootstrap node with id "1" comes before it.
C7_RevisionCommitted ==
    (pc = "done" /\ ~ args.dry_run /\ ~ args.erratum) =>
        /\ RevisionFilesWritten
        /\ IsPrefix(old.xml.children, xml.children)
        /\ Len(xml.children) = Len(old.xml.children)
              + (IF Revisions(old.xml) = <<>> THEN 2 ELSE 1)
        /\ LastChildIsNew
        /\ Revisions(old.xml) = <<>> =>
              xml.children[Len(xml.children) - 1].id = <<"1">>

C7_Witness ==
    /\ pc = "done"
    /\ ~ args.dry_run /\ ~ args.erratum
    /\ Revisions(old.xml) = <<>>
    /\ Len(old.xml.children) = 1
    /\ Len(xml.children) = 3
    /\ InputBytes # ReadFile(old.disk, canonical_path)

\* C8: a committed erratum run leaves the canonical file and the hash of the
\* paper's url node as they were; it only writes the file e<revno> and
\* appends one erratum node.
C8_ErratumLeavesUrlHash ==
    (pc = "done" /\ ~ args.dry_run /\ args.erratum) =>
        /\ ReadFile(disk, canonical_path) = ReadFile(old.disk, canonical_path)
        /\ xml.urlHash = old.xml.urlHash
        /\ ReadFile(disk, VersionedPath("e", revno)) = InputBytes
        /\ Len(xml.children) = Len(old.xml.children) + 1
        /\ LastChildIsNew

\* C9: a run that ends because validate_file_type rejected a file exits with
\* a non-zero status and has changed neither the XML file nor any file of the
\* archive directory.
C9_RejectedFileMutatesNothing ==
    (pc = "fatal" /\ fatal = "mime") =>
        /\ exitcode # 0
        /\ xml = old.xml
        /\ Archive(disk) = Archive(old.disk)

\* C10: a run on a URL that completes has removed its temporary file exactly
\* once, in dry-run and in commit mode and for both kinds; a run on a local
\* path removes no file; a run that exits fatally leaves its temporary file.
C10_TempFileRemovedOnce ==
    /\ (pc = "done" /\ StartsWithHttp(args.path)) =>
          /\ removed = <<TempPath(runs)>>
          /\ TempPath(runs) \notin DOMAIN disk
    /\ (pc = "done" /\ ~ StartsWithHttp(args.path)) =>
          /\ removed = <<>>
          /\ args.path \in DOMAIN disk
    /\ (pc = "fatal" /\ StartsWithHttp(args.path)) =>
          /\ removed = <<>>
          /\ TempPath(runs) \in DOMAIN disk

C10_Witness ==
    /\ pc = "done"
    /\ StartsWithHttp(args.path)
    /\ args.dry_run /\ args.erratum
    /\ removed = <<TempPath(runs)>>
    /\ runs = 2

(* ------------------- the ledger on an arbitrary record ------------------ *)

\* the most revision and erratum nodes a record starts with
MaxNodes == 2
\* the ids of those nodes are 1..MaxId
MaxId == 2

\* a node an earlier run, or an editor of the XML file, left on the paper
ExistingNode(tag, n) ==
    MakeNode(tag, Explanation, Str(n),
             Href(IF tag = "erratum" THEN "e" ELSE "v", n),
             compute_hash(OrigContent), Date)

\* the lists of existing children, in every document order
ExistingChildren ==
    UNION {[1..k -> {ExistingNode(t, n) : t \in {"revision", "erratum"},
                                          n \in 1..MaxId}] : k \in 0..MaxNodes}

\* as Init, but the paper is in the XML with some list of children
LedgerInit ==
    /\ pc = "idle"
    /\ runs = 0
    /\ args = ParseArgs({}, LocalSource)
    /\ remote = NoFile
    /\ input_file_path = <<>>
    /\ checksum = NoFile
    /\ revno = 0
    /\ tree = NoTree
    /\ fatal = "none"
    /\ exitcode = -1
    /\ removed = <<>>
    /\ fetched = <<>>
    /\ dirExists = TRUE
    /\ disk = WriteFile(NoFiles, canonical_path, OrigContent)
    /\ \E ch \in ExistingChildren :
         xml = [FreshPaper(TRUE) EXCEPT !.children = ch]
    /\ old = [xml |-> xml, disk |-> disk, dir |-> dirExists]
    /\ lastRev = NoFile

LedgerSpec == LedgerInit /\ [][Next]_vars

\* the ids of the nodes of the run's kind on the record the run started from
MatchingIds ==
    LET nodes == SelectSeq(old.xml.children,
                           LAMBDA n : n.tag = change_type(args))
    IN {ParseInt(nodes[i].id) : i \in 1..Len(nodes)}

MaxOf(S) == CHOOSE n \in S : \A m \in S : m <= n

\* C11: whatever the document order of the existing nodes of the run's kind,
\* the computed revno is the maximum of their ids plus 1, and without such
\* nodes it is 2 for a revision and 1 for an erratum.
C11_RevnoIsMaxPlusOne ==
    PastLocate =>
        revno = IF MatchingIds = {} THEN (IF args.erratum THEN 1 ELSE 2)
                ELSE MaxOf(MatchingIds) + 1

====
